---------------------------- MODULE Spec2Model ----------------------------
(***************************************************************************)
(* Veo 3 video generator: the browser client (src/src/App.tsx) that starts *)
(* a long-running generation, polls the operation and plays the result     *)
(* through the video proxy, and the server-side handlers: the generate     *)
(* proxies (src/src/server.ts, src/api/generate.ts), the operation poller  *)
(* (src/unnamed/part_000) and the video proxy (src/api/video.ts).          *)
(*                                                                         *)
(* Text is modelled as a sequence of tokens: a one-character string for    *)
(* every character a conversion looks at (trim, encodeURIComponent), and   *)
(* one multi-character token for a literal of the source ("/api").         *)
(* A message is a record [text, code]: `Failed to start generation (401)`  *)
(* is Msg("Failed to start generation", 401).                              *)
(***************************************************************************)
EXTENDS Integers, Sequences, FiniteSets, TLC

VARIABLES
    prompt,            \* App.tsx:61   useState('')
    aspectRatio,       \* App.tsx:63   useState('16:9')
    isLoading,         \* App.tsx:64
    videoUrl,          \* App.tsx:65
    error,             \* App.tsx:66
    errorDetails,      \* App.tsx:67
    showErrorDetails,  \* App.tsx:68
    runs,              \* the handleGenerate calls that have not been superseded:
                       \* each one's position and locals
    nextId,            \* number of handleGenerate calls that passed validation
    alerts,            \* number of alert() dialogs shown (App.tsx:73)
    net,               \* the browser's HTTP requests that have no answer yet
    envKey,            \* generate.ts:90  process.env.VEO3_API_KEY ("" when unset)
    phandler,          \* the generate proxy variant handling the request
    preq,              \* the request a generate proxy is handling
    ppc,               \* the handler's position: idle, awaitUpstream, responded
    outbound,          \* the upstream calls made for the request
    upReply,           \* what upstream answered
    presp,             \* the response the handler returned
    viteApiBaseUrl,    \* App.tsx:32  import.meta.env.VITE_API_BASE_URL (<<>> when unset)
    isDev,             \* App.tsx:34  import.meta.env.MODE === 'development'
    locationOrigin,    \* App.tsx:41  window.location.origin
    GEMINI_API_KEY,    \* video.ts:11, part_000:16  process.env.GEMINI_API_KEY
    API_KEY,           \* video.ts:11, part_000:16  process.env.API_KEY
    operation,         \* upstream's long-running operation op123: done, and its video
    terminal,          \* the first answer the poller gave for the operation once done
    repeats            \* the number of answers it gave for the done operation after that

cvars == <<prompt, aspectRatio, isLoading, videoUrl, error, errorDetails,
           showErrorDetails, runs, nextId, alerts, net>>

pvars == <<envKey, phandler, preq, ppc, outbound, upReply, presp>>

\* The build's and the page's configuration.
bvars == <<viteApiBaseUrl, isDev, locationOrigin>>

\* The environment of the operation poller and of the video proxy.
rvars == <<GEMINI_API_KEY, API_KEY, operation, terminal, repeats>>

vars == <<cvars, pvars, bvars, rvars>>

---------------------------------------------------------------------------
\* Bounds of the model.

\* handleGenerate is called at most this many times.
MaxCalls == 2

\* The prompt the user types has at most this many characters.
MaxPromptLen == 2

\* The poller is asked again at most this many times about an operation whose
\* terminal result it has relayed.
MaxRepeats == 2

---------------------------------------------------------------------------
\* Text.

PromptChars == {" ", "a"}

Prompts == UNION {[1..n -> PromptChars] : n \in 0..MaxPromptLen}

IsSpace(c) == c = " "

RECURSIVE TrimStart(_)
TrimStart(s) ==
    IF s = <<>> THEN <<>>
    ELSE IF IsSpace(Head(s)) THEN TrimStart(Tail(s)) ELSE s

RECURSIVE TrimEnd(_)
TrimEnd(s) ==
    IF s = <<>> THEN <<>>
    ELSE IF IsSpace(s[Len(s)]) THEN TrimEnd(SubSeq(s, 1, Len(s) - 1)) ELSE s

\* String.prototype.trim
Trim(s) == TrimEnd(TrimStart(s))

\* encodeURIComponent on one character: the unreserved ones stay, the others
\* become their percent escape.
EncodeChar(c) ==
    CASE c = ":" -> <<"%", "3", "A">>
      [] c = "/" -> <<"%", "2", "F">>
      [] c = "%" -> <<"%", "2", "5">>
      [] c = "?" -> <<"%", "3", "F">>
      [] c = " " -> <<"%", "2", "0">>
      [] OTHER   -> <<c>>

RECURSIVE encodeURIComponent(_)
encodeURIComponent(s) ==
    IF s = <<>> THEN <<>>
    ELSE EncodeChar(Head(s)) \o encodeURIComponent(Tail(s))

Msg(text, code) == [text |-> text, code |-> code]

\* The empty string, as a message.
NoMsg == Msg("", 0)

---------------------------------------------------------------------------
\* What the servers answer the browser.

\* Upstream video URIs a terminal poll may carry; <<>> is an absent (or empty) uri.
\* The second is "https://upstream/v1".
VideoUris ==
    { <<"v">>,
      <<"h","t","t","p","s",":","/","/","u","p","s","t","r","e","a","m","/","v","1">> }

\* Operation names a start response may carry; <<>> is an absent (or empty) one.
OperationNames == { <<"o","p","1","2","3">>, <<"m","/","o">> }

UpstreamMessages == { Msg("rate limited", 0), Msg("quota exceeded", 0) }

\* A response no fetch has produced yet.
NoResponse ==
    [kind |-> "none", status |-> 0, contentType |-> "", valid |-> FALSE,
     success |-> FALSE, operationName |-> <<>>, error |-> NoMsg,
     done |-> FALSE, uri |-> <<>>, videoUrl |-> <<>>, raw |-> ""]

\* fetch rejected: a transport failure, which the browser reports as a TypeError.
NetworkFailure == [NoResponse EXCEPT !.kind = "typeerror"]

\* An HTTP response: status, content type, and the body as JSON.parse reads it
\* (valid = FALSE: the body is empty or is no JSON, then the fields are unset, and
\* raw is what the body holds instead: a text, a video's bytes).
Http(status, contentType, valid, success, operationName, err, done, uri) ==
    [kind |-> "http", status |-> status, contentType |-> contentType,
     valid |-> valid, success |-> success, operationName |-> operationName,
     error |-> err, done |-> done, uri |-> uri, videoUrl |-> <<>>, raw |-> ""]

\* A start response of the synchronous mode: { success: true, videoUrl }, with an
\* operation name or (<<>>) without one.
DirectVideo(operationName, url) ==
    [Http(200, "application/json", TRUE, TRUE, operationName, NoMsg, FALSE, <<>>)
        EXCEPT !.videoUrl = url]

\* Answers to POST <base>/generate.
StartResponses ==
    {NetworkFailure}
    \cup {DirectVideo(n, <<"v">>) : n \in {<<>>, <<"o","p","1","2","3">>}}
    \cup {Http(200, "application/json", TRUE, TRUE, n, NoMsg, FALSE, <<>>) :
            n \in OperationNames \cup {<<>>}}
    \cup {Http(200, "application/json", TRUE, FALSE, <<"o","p","1","2","3">>, m, FALSE, <<>>) :
            m \in UpstreamMessages \cup {NoMsg}}
    \cup {Http(200, ct, FALSE, FALSE, <<>>, NoMsg, FALSE, <<>>) :
            ct \in {"application/json", "text/html"}}
    \cup {Http(s, "application/json", TRUE, FALSE, <<>>, m, FALSE, <<>>) :
            s \in {401, 429, 502}, m \in {Msg("rate limited", 0), NoMsg}}
    \cup {Http(401, "application/json", TRUE, TRUE, <<"o","p","1","2","3">>, NoMsg, FALSE, <<>>),
          Http(500, "text/html", FALSE, FALSE, <<>>, NoMsg, FALSE, <<>>)}

\* Answers to GET <base>/operation?name=...; the 2xx ones with a body that is no
\* JSON have an empty body (as JSON) or a page of HTML.
PollResponses ==
    {NetworkFailure}
    \cup {Http(200, "application/json", TRUE, FALSE, <<>>, m, d, u) :
            m \in {NoMsg, Msg("quota exceeded", 0)}, d \in BOOLEAN,
            u \in VideoUris \cup {<<>>}}
    \cup {Http(200, "application/json", FALSE, FALSE, <<>>, NoMsg, FALSE, <<>>),
          [Http(200, "text/html", FALSE, FALSE, <<>>, NoMsg, FALSE, <<>>)
              EXCEPT !.raw = "<html>"]}
    \cup {Http(s, "application/json", v, FALSE, <<>>, NoMsg, v, <<>>) :
            s \in {404, 500}, v \in BOOLEAN}

\* Response.ok
Ok(res) == res.kind = "http" /\ res.status >= 200 /\ res.status <= 299

---------------------------------------------------------------------------
\* App.tsx

maxAttempts == 60

\* The page's origin in production, "https://app.example".
AppOrigin == <<"h","t","t","p","s",":","/","/","a","p","p",".","e","x","a","m","p","l","e">>

\* The origin of a page served on the developer's machine, "http://localhost:3001".
LocalOrigin == <<"h","t","t","p",":","/","/","l","o","c","a","l","h","o","s","t",":","3","0","0","1">>

PageOrigins == {AppOrigin, LocalOrigin}

\* Values of VITE_API_BASE_URL: unset, "/v2", "//evil.example", "//localhost:3001",
\* "https://app.example/v2", "https://evil.example", "http://localhost:3001/api",
\* "http://127.0.0.1", "httpx" and "api".
BaseUrls ==
    { <<>>,
      <<"/","v","2">>,
      <<"/","/","e","v","i","l",".","e","x","a","m","p","l","e">>,
      <<"/","/","l","o","c","a","l","h","o","s","t",":","3","0","0","1">>,
      <<"h","t","t","p","s",":","/","/","a","p","p",".","e","x","a","m","p","l","e","/","v","2">>,
      <<"h","t","t","p","s",":","/","/","e","v","i","l",".","e","x","a","m","p","l","e">>,
      <<"h","t","t","p",":","/","/","l","o","c","a","l","h","o","s","t",":","3","0","0","1","/","a","p","i">>,
      <<"h","t","t","p",":","/","/","1","2","7",".","0",".","0",".","1">>,
      <<"h","t","t","p","x">>,
      <<"a","p","i">> }

\* String.prototype.startsWith
StartsWith(s, p) == Len(s) >= Len(p) /\ SubSeq(s, 1, Len(p)) = p

\* String.prototype.includes, RegExp.prototype.test of a literal
Includes(s, p) ==
    \E i \in 1..(Len(s) - Len(p) + 1) : SubSeq(s, i, i + Len(p) - 1) = p

\* The tokens that begin with a slash.
SlashTokens == {"/", "/api", "/generate", "/operation?name=", "/video?uri="}

\* The first position of s that holds an element of set, 0 when there is none.
IndexIn(s, set) ==
    IF \E i \in 1..Len(s) : s[i] \in set
    THEN CHOOSE i \in 1..Len(s) : s[i] \in set /\ \A j \in 1..(i - 1) : s[j] \notin set
    ELSE 0

InvalidUrl == [valid |-> FALSE, protocol |-> <<>>, hostname |-> <<>>, port |-> <<>>]

\* new URL(text), for a text with no scheme (which throws: InvalidUrl) or with an
\* http or https scheme in lower case: the protocol, the host name and the port, a
\* scheme's default port dropped.
URL(text) ==
    LET colon     == IndexIn(text, {":"})
        protocol  == SubSeq(text, 1, colon)
        rest      == SubSeq(text, colon + 1, Len(text))
        afterSl   == SubSeq(rest, 3, Len(rest))
        slash     == IndexIn(afterSl, SlashTokens)
        authority == IF slash = 0 THEN afterSl ELSE SubSeq(afterSl, 1, slash - 1)
        portAt    == IndexIn(authority, {":"})
        hostname  == IF portAt = 0 THEN authority ELSE SubSeq(authority, 1, portAt - 1)
        port      == IF portAt = 0 THEN <<>>
                     ELSE SubSeq(authority, portAt + 1, Len(authority))
        default   == IF protocol = <<"h","t","t","p","s",":">> THEN <<"4","4","3">> ELSE <<"8","0">>
    IN  IF \/ colon = 0
           \/ protocol \notin {<<"h","t","t","p",":">>, <<"h","t","t","p","s",":">>}
           \/ ~StartsWith(rest, <<"/", "/">>)
           \/ hostname = <<>>
        THEN InvalidUrl
        ELSE [valid |-> TRUE, protocol |-> protocol, hostname |-> hostname,
              port |-> IF port = default THEN <<>> ELSE port]

\* URL.origin
Origin(u) ==
    u.protocol \o <<"/", "/">> \o u.hostname
       \o (IF u.port = <<>> THEN <<>> ELSE <<":">> \o u.port)

\* typeof window !== 'undefined': the App runs in a browser window.
isBrowser == TRUE

\* /localhost|127\.0\.0\.1/.test(hostname)
IsLocalhost(hostname) ==
    \/ Includes(hostname, <<"l","o","c","a","l","h","o","s","t">>)
    \/ Includes(hostname, <<"1","2","7",".","0",".","0",".","1">>)

getSafeApiBaseUrl ==
    LET envBase == viteApiBaseUrl
        envUrl  == URL(envBase)
        curr    == URL(locationOrigin)
    IN  IF envBase = <<>> THEN <<"/api">>
        ELSE IF StartsWith(envBase, <<"/">>) THEN envBase
        ELSE IF StartsWith(envBase, <<"h","t","t","p">>)
        THEN IF ~isBrowser THEN envBase
             ELSE IF ~envUrl.valid \/ ~curr.valid THEN <<"/api">>
             ELSE IF ~isDev /\ (\/ IsLocalhost(envUrl.hostname)
                                \/ Origin(envUrl) # Origin(curr))
             THEN <<"/api">>
             ELSE envBase
        ELSE <<"/api">>

StartUrl == getSafeApiBaseUrl \o <<"/generate">>

PollUrl(operationName) ==
    getSafeApiBaseUrl \o <<"/operation?name=">> \o encodeURIComponent(operationName)

\* Mutant: the upstream URI handed to the player as it is.
VideoProxyUrlDirect(videoUri) == videoUri

VideoProxyUrl(videoUri) ==
    getSafeApiBaseUrl \o <<"/video?uri=">> \o encodeURIComponent(videoUri)

NoBody == [prompt |-> <<>>, aspect_ratio |-> ""]

\* The start fetch of call id: n is 0.
StartRequest(id, p, ar) ==
    [id |-> id, kind |-> "start", n |-> 0, method |-> "POST", url |-> StartUrl,
     headers |-> {"Content-Type"},
     body |-> [prompt |-> Trim(p), aspect_ratio |-> ar]]

\* The n-th status fetch of call id.
PollRequest(id, url, n) ==
    [id |-> id, kind |-> "poll", n |-> n, method |-> "GET", url |-> url,
     headers |-> {}, body |-> NoBody]

NoDetails == [url |-> <<>>, status |-> 0, contentType |-> "", errorName |-> ""]

Details(url, status, contentType) ==
    [url |-> url, status |-> status, contentType |-> contentType, errorName |-> ""]

\* An error thrown inside the try block.
AppError(message, details) ==
    [name |-> "AppError", message |-> message, details |-> details]

TypeError == [name |-> "TypeError", message |-> Msg("Failed to fetch", 0), details |-> NoDetails]

DefaultMessage == Msg("An unexpected error occurred", 0)

NetworkMessage ==
    Msg("Network error or CORS blocked the request. If this persists, try a server-side proxy.", 0)

TimeoutMessage == Msg("Timed out waiting for video generation to complete", 0)

NoUriMessage == Msg("Operation completed without video URI", 0)

\* message || fallback
OrElse(message, fallback) == IF message.text = "" THEN fallback ELSE message

\* The catch block's message.
CatchMessage(err) ==
    IF err.name = "TypeError" THEN NetworkMessage
    ELSE OrElse(err.message, DefaultMessage)

\* The catch block's errorDetails, from the errorDetails the try block left (null:
\* handleGenerate cleared it).
CatchDetails(err) ==
    LET afterAppError == IF err.name = "AppError" /\ err.details # NoDetails
                         THEN err.details ELSE NoDetails
    IN  IF err.name = "TypeError"
        THEN [url |-> IF afterAppError.url # <<>> THEN afterAppError.url ELSE StartUrl,
              status |-> 0, contentType |-> "", errorName |-> "TypeError"]
        ELSE IF afterAppError # NoDetails THEN afterAppError
        ELSE [url |-> StartUrl, status |-> 0, contentType |-> "", errorName |-> err.name]

\* A handleGenerate call's locals, as it starts.
NewRun(id) ==
    [id |-> id, pc |-> "awaitStart", attempt |-> 0, polls |-> 0,
     startRes |-> NoResponse, opRes |-> NoResponse,
     pollUrl |-> <<>>, videoUri |-> <<>>]

InFlight(r) == r.pc # "done"

\* Mutant: the button stays enabled while a submission is loading.
GenerateDisabledBlankOnly == Trim(prompt) = <<>>

\* The Generate button's disabled attribute.
GenerateDisabled == isLoading \/ Trim(prompt) = <<>>

\* The calls a new call leaves in the model: the ones still running.
Running == SelectSeq(runs, InFlight)

\* Mutant: handleGenerate without its validation.
handleGenerateNoValidation ==
    /\ nextId + alerts < MaxCalls
    /\ isLoading' = TRUE
    /\ error' = NoMsg
    /\ videoUrl' = <<>>
    /\ errorDetails' = NoDetails
    /\ showErrorDetails' = FALSE
    /\ nextId' = nextId + 1
    /\ runs' = Append(Running, NewRun(nextId + 1))
    /\ net' = net \cup {StartRequest(nextId + 1, prompt, aspectRatio)}
    /\ UNCHANGED <<prompt, aspectRatio, alerts>>
    /\ UNCHANGED <<pvars, bvars, rvars>>

\* Mutant: handleGenerate without setError('').
handleGenerateKeepingError ==
    /\ nextId + alerts < MaxCalls
    /\ IF Trim(prompt) = <<>>
       THEN /\ alerts' = alerts + 1
            /\ UNCHANGED <<prompt, aspectRatio, isLoading, videoUrl, error,
                           errorDetails, showErrorDetails, runs, nextId, net>>
       ELSE /\ isLoading' = TRUE
            /\ videoUrl' = <<>>
            /\ errorDetails' = NoDetails
            /\ showErrorDetails' = FALSE
            /\ nextId' = nextId + 1
            /\ runs' = Append(Running, NewRun(nextId + 1))
            /\ net' = net \cup {StartRequest(nextId + 1, prompt, aspectRatio)}
            /\ UNCHANGED <<prompt, aspectRatio, alerts, error>>
    /\ UNCHANGED <<pvars, bvars, rvars>>

\* handleGenerate, up to its first await.
handleGenerate ==
    /\ nextId + alerts < MaxCalls
    /\ IF Trim(prompt) = <<>>
       THEN /\ alerts' = alerts + 1
            /\ UNCHANGED <<prompt, aspectRatio, isLoading, videoUrl, error,
                           errorDetails, showErrorDetails, runs, nextId, net>>
       ELSE /\ isLoading' = TRUE
            /\ error' = NoMsg
            /\ videoUrl' = <<>>
            /\ errorDetails' = NoDetails
            /\ showErrorDetails' = FALSE
            /\ nextId' = nextId + 1
            /\ runs' = Append(Running, NewRun(nextId + 1))
            /\ net' = net \cup {StartRequest(nextId + 1, prompt, aspectRatio)}
            /\ UNCHANGED <<prompt, aspectRatio, alerts>>
    /\ UNCHANGED <<pvars, bvars, rvars>>

\* Mutant: the catch block without the finally block after it.
CatchWithoutFinally(i, r, err) ==
    /\ error' = CatchMessage(err)
    /\ errorDetails' = CatchDetails(err)
    /\ runs' = [runs EXCEPT ![i] = [r EXCEPT !.pc = "done"]]
    /\ UNCHANGED <<isLoading, videoUrl, showErrorDetails>>

\* The catch and finally blocks, run by call i with its locals now r.
Catch(i, r, err) ==
    /\ error' = CatchMessage(err)
    /\ errorDetails' = CatchDetails(err)
    /\ isLoading' = FALSE
    /\ runs' = [runs EXCEPT ![i] = [r EXCEPT !.pc = "done"]]
    /\ UNCHANGED <<videoUrl, showErrorDetails>>

\* Mutant: success is not looked at.
StartAcceptedIgnoringSuccess(res) ==
    Ok(res) /\ res.valid /\ res.operationName # <<>>

\* The start response is one the poll loop may follow.
StartAccepted(res) ==
    Ok(res) /\ res.valid /\ res.success /\ res.operationName # <<>>

StartFailureMessage(res) ==
    OrElse(IF res.valid THEN res.error ELSE NoMsg,
           Msg("Failed to start generation", res.status))

\* The start fetch settles.
StartResponse(i, res) ==
    LET r   == runs[i]
        req == CHOOSE q \in net : q.id = r.id /\ q.kind = "start"
        got == [r EXCEPT !.startRes = res]
    IN  /\ r.pc = "awaitStart"
        /\ \E q \in net : q.id = r.id /\ q.kind = "start"
        /\ net' = net \ {req}
        /\ IF res.kind = "typeerror"
           THEN Catch(i, got, TypeError)
           ELSE IF ~StartAccepted(res)
           THEN Catch(i, got, AppError(StartFailureMessage(res),
                                       Details(StartUrl, res.status, res.contentType)))
           ELSE /\ runs' = [runs EXCEPT ![i] =
                              [got EXCEPT !.pc = "loopHead",
                                          !.pollUrl = PollUrl(res.operationName)]]
                /\ UNCHANGED <<isLoading, videoUrl, error, errorDetails, showErrorDetails>>
        /\ UNCHANGED <<prompt, aspectRatio, nextId, alerts>>
        /\ UNCHANGED <<pvars, bvars, rvars>>

\* Mutant: attempt <= maxAttempts.
LoopHeadOffByOne(i) ==
    LET r == runs[i]
    IN  /\ r.pc = "loopHead"
        /\ IF r.attempt <= maxAttempts
           THEN /\ net' = net \cup {PollRequest(r.id, r.pollUrl, r.polls + 1)}
                /\ runs' = [runs EXCEPT ![i] =
                              [r EXCEPT !.pc = "awaitPoll", !.polls = r.polls + 1]]
                /\ UNCHANGED <<isLoading, videoUrl, error, errorDetails, showErrorDetails>>
           ELSE /\ Catch(i, r, AppError(TimeoutMessage, NoDetails))
                /\ UNCHANGED net
        /\ UNCHANGED <<prompt, aspectRatio, nextId, alerts>>
        /\ UNCHANGED <<pvars, bvars, rvars>>

\* Mutant: the status fetch is not awaited, and the loop goes on to its next
\* iteration at once.
LoopHeadNoAwait(i) ==
    LET r == runs[i]
    IN  /\ r.pc = "loopHead"
        /\ IF r.attempt < maxAttempts
           THEN /\ net' = net \cup {PollRequest(r.id, r.pollUrl, r.polls + 1)}
                /\ runs' = [runs EXCEPT ![i] =
                              [r EXCEPT !.attempt = r.attempt + 1, !.polls = r.polls + 1]]
                /\ UNCHANGED <<isLoading, videoUrl, error, errorDetails, showErrorDetails>>
           ELSE /\ Catch(i, r, AppError(TimeoutMessage, NoDetails))
                /\ UNCHANGED net
        /\ UNCHANGED <<prompt, aspectRatio, nextId, alerts>>
        /\ UNCHANGED <<pvars, bvars, rvars>>

\* The for statement's test, and the status fetch of the iteration it admits.
LoopHead(i) ==
    LET r == runs[i]
    IN  /\ r.pc = "loopHead"
        /\ IF r.attempt < maxAttempts
           THEN /\ net' = net \cup {PollRequest(r.id, r.pollUrl, r.polls + 1)}
                /\ runs' = [runs EXCEPT ![i] =
                              [r EXCEPT !.pc = "awaitPoll", !.polls = r.polls + 1]]
                /\ UNCHANGED <<isLoading, videoUrl, error, errorDetails, showErrorDetails>>
           ELSE /\ Catch(i, r, AppError(TimeoutMessage, NoDetails))
                /\ UNCHANGED net
        /\ UNCHANGED <<prompt, aspectRatio, nextId, alerts>>
        /\ UNCHANGED <<pvars, bvars, rvars>>

\* Mutant: a body that is no JSON, or has an error field, counts as done.
OpJsonFailing(res) ==
    IF res.valid THEN [res EXCEPT !.done = res.done \/ res.error # NoMsg]
    ELSE [res EXCEPT !.done = res.raw # "", !.uri = <<>>]

\* JSON.parse of the status body, {} when it is empty or no JSON.
OpJson(res) == IF res.valid THEN res ELSE [res EXCEPT !.done = FALSE, !.uri = <<>>]

\* Mutant: a body counts as done only with a uri in it.
OpDoneWithUri(res) == OpJson(res).done /\ OpJson(res).uri # <<>>

\* opJson?.done
OpDone(res) == OpJson(res).done

\* Mutant: a status request that fails is tried again after the wait.
PollResponseRetrying(i, res) ==
    LET r   == runs[i]
        req == CHOOSE q \in net : q.id = r.id /\ q.kind = "poll"
        got == [r EXCEPT !.opRes = res]
        uri == OpJson(res).uri
    IN  /\ r.pc = "awaitPoll"
        /\ \E q \in net : q.id = r.id /\ q.kind = "poll"
        /\ net' = net \ {req}
        /\ IF Ok(res) /\ OpDone(res)
           THEN IF uri = <<>>
                THEN Catch(i, got, AppError(NoUriMessage,
                                            Details(r.pollUrl, 0, res.contentType)))
                ELSE /\ videoUrl' = VideoProxyUrl(uri)
                     /\ isLoading' = FALSE
                     /\ runs' = [runs EXCEPT ![i] =
                                   [got EXCEPT !.pc = "done", !.videoUri = uri]]
                     /\ UNCHANGED <<error, errorDetails, showErrorDetails>>
           ELSE /\ runs' = [runs EXCEPT ![i] = [got EXCEPT !.pc = "sleeping"]]
                /\ UNCHANGED <<isLoading, videoUrl, error, errorDetails, showErrorDetails>>
        /\ UNCHANGED <<prompt, aspectRatio, nextId, alerts>>
        /\ UNCHANGED <<pvars, bvars, rvars>>

\* A status fetch settles.
PollResponse(i, res) ==
    LET r   == runs[i]
        req == CHOOSE q \in net : q.id = r.id /\ q.kind = "poll"
        got == [r EXCEPT !.opRes = res]
        uri == OpJson(res).uri
    IN  /\ r.pc = "awaitPoll"
        /\ \E q \in net : q.id = r.id /\ q.kind = "poll"
        /\ net' = net \ {req}
        /\ IF res.kind = "typeerror"
           THEN Catch(i, got, TypeError)
           ELSE IF ~Ok(res)
           THEN Catch(i, got, AppError(Msg("Operation polling failed", res.status),
                                       Details(r.pollUrl, res.status, res.contentType)))
           ELSE IF OpDone(res)
           THEN IF uri = <<>>
                THEN Catch(i, got, AppError(NoUriMessage,
                                            Details(r.pollUrl, 0, res.contentType)))
                ELSE /\ videoUrl' = VideoProxyUrl(uri)
                     /\ isLoading' = FALSE
                     /\ runs' = [runs EXCEPT ![i] =
                                   [got EXCEPT !.pc = "done", !.videoUri = uri]]
                     /\ UNCHANGED <<error, errorDetails, showErrorDetails>>
           ELSE /\ runs' = [runs EXCEPT ![i] = [got EXCEPT !.pc = "sleeping"]]
                /\ UNCHANGED <<isLoading, videoUrl, error, errorDetails, showErrorDetails>>
        /\ UNCHANGED <<prompt, aspectRatio, nextId, alerts>>
        /\ UNCHANGED <<pvars, bvars, rvars>>

\* sleep(intervalMs) resolves: the for statement's attempt++.
SleepElapsed(i) ==
    LET r == runs[i]
    IN  /\ r.pc = "sleeping"
        /\ runs' = [runs EXCEPT ![i] =
                      [r EXCEPT !.pc = "loopHead", !.attempt = r.attempt + 1]]
        /\ UNCHANGED <<prompt, aspectRatio, isLoading, videoUrl, error, errorDetails,
                       showErrorDetails, nextId, alerts, net>>
        /\ UNCHANGED <<pvars, bvars, rvars>>

\* The user types in the prompt field, which is disabled while loading.
SetPrompt(p) ==
    /\ ~isLoading
    /\ prompt' = p
    /\ UNCHANGED <<aspectRatio, isLoading, videoUrl, error, errorDetails,
                   showErrorDetails, runs, nextId, alerts, net>>
    /\ UNCHANGED <<pvars, bvars, rvars>>

\* The user picks an aspect ratio; both buttons are disabled while loading.
SetAspectRatio(a) ==
    /\ ~isLoading
    /\ aspectRatio' = a
    /\ UNCHANGED <<prompt, isLoading, videoUrl, error, errorDetails,
                   showErrorDetails, runs, nextId, alerts, net>>
    /\ UNCHANGED <<pvars, bvars, rvars>>

\* The "technical details" link, shown with an error that has details.
ToggleErrorDetails ==
    /\ ~isLoading
    /\ error # NoMsg
    /\ errorDetails # NoDetails
    /\ showErrorDetails' = ~showErrorDetails
    /\ UNCHANGED <<prompt, aspectRatio, isLoading, videoUrl, error, errorDetails,
                   runs, nextId, alerts, net>>
    /\ UNCHANGED <<pvars, bvars, rvars>>

\* The user clicks Generate.
ClickGenerate ==
    /\ ~GenerateDisabled
    /\ handleGenerate

\* handleGenerate called as a function, each call awaited before the next.
CallHandleGenerate ==
    /\ \A i \in DOMAIN runs : ~InFlight(runs[i])
    /\ handleGenerate

---------------------------------------------------------------------------
\* The generate proxies: src/src/server.ts (Express), and the two handlers of
\* src/api/generate.ts (Node, lines 1-60; edge runtime, lines 61-140).

\* A request's body is the JSON text of {prompt, aspect_ratio, apiKey}; an absent
\* field and an empty one read the same everywhere (<<>> or ""). The Content-Type
\* header may or may not announce it as JSON.
ProxyRequests ==
    [method : {"POST", "GET"},
     contentType : {"application/json", "text/plain"},
     prompt : Prompts,
     aspect_ratio : {"", "9:16"},
     apiKey : {"", "kB"},
     xApiKey : {"", "kH"},
     authorization : {<<>>, <<"Bearer ", "kA">>}]

NoRequest ==
    [method |-> "", contentType |-> "", prompt |-> <<>>, aspect_ratio |-> "",
     apiKey |-> "", xApiKey |-> "", authorization |-> <<>>]

\* fetch(upstream) rejected.
UpstreamFailure == [NoResponse EXCEPT !.kind = "throw"]

\* What upstream answers POST /generate.
UpstreamReplies ==
    {UpstreamFailure}
    \cup {Http(200, "application/json", TRUE, TRUE, <<"o","p","1","2","3">>, NoMsg, FALSE, <<>>),
          Http(200, "application/json", FALSE, FALSE, <<>>, NoMsg, FALSE, <<>>),
          Http(200, "text/plain", FALSE, FALSE, <<>>, NoMsg, FALSE, <<>>)}
    \cup {Http(s, ct, TRUE, FALSE, <<>>, m, FALSE, <<>>) :
            s \in {401, 429, 500}, ct \in {"application/json", "text/plain", ""},
            m \in UpstreamMessages \cup {NoMsg}}
    \cup {Http(s, ct, FALSE, FALSE, <<>>, NoMsg, FALSE, <<>>) :
            s \in {401, 429, 500}, ct \in {"application/json", "text/plain", ""}}

EmptyBody == [prompt |-> <<>>, aspect_ratio |-> "", apiKey |-> ""]

BodyOf(req) ==
    [prompt |-> req.prompt, aspect_ratio |-> req.aspect_ratio, apiKey |-> req.apiKey]

UpstreamCall(url, authorization, body) ==
    [url |-> url, authorization |-> authorization, body |-> body]

\* { success: false, error } with a status.
ErrorResponse(status, message) ==
    Http(status, "application/json", TRUE, FALSE, <<>>, message, FALSE, <<>>)

\* contentType.includes('application/json')
IsJson(contentType) == contentType = "application/json"

\* UPSTREAM, with UPSTREAM_BASE_URL unset.
UPSTREAM == <<"https://api.veo3.ai">>

\* ---- the edge handler (generate.ts:69-140)

\* body?.apiKey || req.headers.get('x-api-key') || ''
EdgeClientApiKey(req) == IF req.apiKey # "" THEN req.apiKey ELSE req.xApiKey

\* clientApiKey || envApiKey
EdgeApiKey(req, env) ==
    IF EdgeClientApiKey(req) # "" THEN EdgeClientApiKey(req) ELSE env

\* !prompt || !prompt.trim()
EdgePromptMissing(req) == req.prompt = <<>> \/ Trim(req.prompt) = <<>>

\* The response the handler returns before calling upstream, NoResponse when it
\* goes on to the call.
EdgeEarly(req, env) ==
    IF req.method # "POST" THEN ErrorResponse(405, Msg("Method Not Allowed", 0))
    ELSE IF ~IsJson(req.contentType)
    THEN ErrorResponse(400, Msg("Content-Type must be application/json", 0))
    ELSE IF EdgePromptMissing(req)
    THEN ErrorResponse(400, Msg("Missing required field: prompt", 0))
    ELSE IF EdgeApiKey(req, env) = ""
    THEN ErrorResponse(401, Msg("Missing API key. Provide in body.apiKey or x-api-key header, or set VEO3_API_KEY.", 0))
    ELSE NoResponse

EdgeCall(req, env) ==
    UpstreamCall(<<"https://api.veo3.ai/generate">>,
                 <<"Bearer ", EdgeApiKey(req, env)>>,
                 [prompt |-> Trim(req.prompt),
                  aspect_ratio |-> IF req.aspect_ratio # "" THEN req.aspect_ratio ELSE "16:9",
                  apiKey |-> ""])

\* upstreamJson?.error || `Upstream error ${upstreamResponse.status}`
EdgeErrorMessage(rep) ==
    OrElse(IF rep.valid THEN rep.error ELSE NoMsg, Msg("Upstream error", rep.status))

\* Mutant: every upstream failure answered 502.
EdgeErrorStatusFixed(rep) == 502

EdgeErrorStatus(rep) == rep.status

\* The response after upstream's answer.
EdgeFinish(rep) ==
    IF rep.kind = "throw" THEN ErrorResponse(500, Msg("fetch failed", 0))
    ELSE IF ~Ok(rep) THEN ErrorResponse(EdgeErrorStatus(rep), EdgeErrorMessage(rep))
    ELSE IF rep.valid THEN [rep EXCEPT !.status = 200, !.contentType = "application/json"]
    ELSE Http(200, "application/json", TRUE, FALSE, <<>>, NoMsg, FALSE, <<>>)

\* ---- the pass-through handlers (generate.ts:17-60, server.ts:12-38)

NodeEarly(req) ==
    IF req.method # "POST" THEN ErrorResponse(405, Msg("Method Not Allowed", 0))
    ELSE NoResponse

\* The body is forwarded as it came, with the caller's Authorization header if any.
NodeCall(req) ==
    UpstreamCall(UPSTREAM \o <<"/generate">>, req.authorization, BodyOf(req))

\* app.post: another method reaches no route, and Express answers 404.
ExpressEarly(req) ==
    IF req.method # "POST" THEN Http(404, "text/html", FALSE, FALSE, <<>>, NoMsg, FALSE, <<>>)
    ELSE NoResponse

\* express.json() parses a body announced as JSON and leaves req.body = {} otherwise.
ExpressCall(req) ==
    UpstreamCall(UPSTREAM \o <<"/generate">>, req.authorization,
                 IF IsJson(req.contentType) THEN BodyOf(req) ELSE EmptyBody)

PassThroughStatus(rep) == rep.status

\* Upstream's status and body relayed: as JSON when announced as JSON (a body that
\* then does not parse throws), as text otherwise.
PassThroughFinish(rep) ==
    IF rep.kind = "throw" THEN ErrorResponse(502, Msg("Proxy error contacting upstream", 0))
    ELSE IF IsJson(rep.contentType)
    THEN IF rep.valid THEN [rep EXCEPT !.status = PassThroughStatus(rep)]
         ELSE ErrorResponse(502, Msg("Proxy error contacting upstream", 0))
    ELSE [rep EXCEPT !.status = PassThroughStatus(rep),
                     !.contentType = IF rep.contentType # "" THEN rep.contentType
                                     ELSE "text/plain"]

Handlers == {"edge", "node", "express"}

Early(h, req, env) ==
    CASE h = "edge" -> EdgeEarly(req, env)
      [] h = "node" -> NodeEarly(req)
      [] OTHER      -> ExpressEarly(req)

Call(h, req, env) ==
    CASE h = "edge" -> EdgeCall(req, env)
      [] h = "node" -> NodeCall(req)
      [] OTHER      -> ExpressCall(req)

Finish(h, rep) == IF h = "edge" THEN EdgeFinish(rep) ELSE PassThroughFinish(rep)

ProxyIdle ==
    /\ phandler = "none"
    /\ preq = NoRequest
    /\ ppc = "idle"
    /\ outbound = <<>>
    /\ upReply = NoResponse
    /\ presp = NoResponse

\* A request arrives at handler h, which runs to its response or to its fetch.
ProxyRequest(h, req) ==
    /\ ppc = "idle"
    /\ phandler' = h
    /\ preq' = req
    /\ upReply' = NoResponse
    /\ IF Early(h, req, envKey) # NoResponse
       THEN /\ presp' = Early(h, req, envKey)
            /\ outbound' = <<>>
            /\ ppc' = "responded"
       ELSE /\ presp' = NoResponse
            /\ outbound' = <<Call(h, req, envKey)>>
            /\ ppc' = "awaitUpstream"
    /\ UNCHANGED <<envKey, cvars, bvars, rvars>>

\* Upstream answers (or the fetch rejects), and the handler returns.
ProxyUpstreamReply(rep) ==
    /\ ppc = "awaitUpstream"
    /\ upReply' = rep
    /\ presp' = Finish(phandler, rep)
    /\ ppc' = "responded"
    /\ UNCHANGED <<envKey, phandler, preq, outbound, cvars, bvars, rvars>>

\* The response is sent; the handlers keep nothing between requests.
ProxyReturn ==
    /\ ppc = "responded"
    /\ phandler' = "none"
    /\ preq' = NoRequest
    /\ ppc' = "idle"
    /\ outbound' = <<>>
    /\ upReply' = NoResponse
    /\ presp' = NoResponse
    /\ UNCHANGED <<envKey, cvars, bvars, rvars>>

---------------------------------------------------------------------------
\* The operation poller (src/unnamed/part_000) and the video proxy
\* (src/api/video.ts).

\* "https://generativelanguage.googleapis.com/v1beta"
BASE_URL ==
    <<"h","t","t","p","s",":","/","/","g","e","n","e","r","a","t","i","v","e","l","a","n","g","u","a","g","e",".","g","o","o","g","l","e","a","p","i","s",".","c","o","m","/","v","1","b","e","t","a">>

\* The operation upstream knows, "op123".
Op123 == <<"o","p","1","2","3">>

\* A video file at upstream, BASE_URL + "/files/f".
UpstreamFileUri == BASE_URL \o <<"/","f","i","l","e","s","/","f">>

\* "https://evil.example/v"
ForeignUri == <<"h","t","t","p","s",":","/","/","e","v","i","l",".","e","x","a","m","p","l","e","/","v">>

\* Values of the environment variables: unset, a key, a blank text.
GeminiKeys == { <<>>, <<"g">>, <<" ">> }

ApiKeys == { <<>>, <<"p">> }

\* (process.env.GEMINI_API_KEY || process.env.API_KEY || '').trim()
ServerApiKey == Trim(IF GEMINI_API_KEY # <<>> THEN GEMINI_API_KEY ELSE API_KEY)

\* GET <base>/operation?name=..., as the handler reads it.
OperationRequests ==
    [method : {"GET", "POST"}, name : {<<>>, Op123, <<"m","/","o">>}]

\* GET <base>/video?uri=..., as the handler reads it.
VideoRequests ==
    [method : {"GET", "POST"}, uri : {<<>>, UpstreamFileUri, ForeignUri}]

\* fetch(url, { headers, signal }): key is <<>> when no x-goog-api-key header is sent.
RelayCall(url, key, timeoutMs) ==
    [url |-> url, xGoogApiKey |-> key, timeoutMs |-> timeoutMs]

\* new Response(text, { status })
TextResponse(status, text) ==
    [Http(status, "text/plain;charset=UTF-8", FALSE, FALSE, <<>>, NoMsg, FALSE, <<>>)
        EXCEPT !.raw = text]

OperationRunning == [done |-> FALSE, uri |-> <<>>]

\* ---- the operation poller (part_000:7-45)

OperationEarly(req) ==
    IF req.method # "GET" THEN ErrorResponse(405, Msg("Method Not Allowed", 0))
    ELSE IF req.name = <<>> THEN ErrorResponse(400, Msg("Missing operation name", 0))
    ELSE IF ServerApiKey = <<>>
    THEN ErrorResponse(500, Msg("Server missing GEMINI_API_KEY", 0))
    ELSE NoResponse

OperationCall(req) ==
    RelayCall(BASE_URL \o <<"/">> \o encodeURIComponent(req.name), ServerApiKey, 30000)

\* Mutant: the poller remembers that it has relayed the terminal result, and
\* answers 404 from then on.
OperationFinishOnce(rep) ==
    IF rep.kind = "throw" THEN ErrorResponse(502, Msg("fetch failed", 0))
    ELSE IF terminal # NoResponse THEN ErrorResponse(404, Msg("Not Found", 0))
    ELSE [rep EXCEPT !.contentType = IF rep.contentType # "" THEN rep.contentType
                                     ELSE "application/json"]

\* Upstream's text and status relayed, or 502 with the rejection's message.
OperationFinish(rep) ==
    IF rep.kind = "throw" THEN ErrorResponse(502, Msg("fetch failed", 0))
    ELSE [rep EXCEPT !.contentType = IF rep.contentType # "" THEN rep.contentType
                                     ELSE "application/json"]

\* ---- the video proxy (video.ts:5-27)

VideoEarly(req) ==
    IF req.method # "GET" THEN TextResponse(405, "Method Not Allowed")
    ELSE IF req.uri = <<>> THEN TextResponse(400, "Missing uri")
    ELSE NoResponse

VideoCall(req) == RelayCall(req.uri, ServerApiKey, 120000)

\* Mutant: the content type is not taken from upstream.
VideoContentTypeFixed(rep) == "application/octet-stream"

\* upstreamRes.headers.get('content-type') || 'application/octet-stream'
VideoContentType(rep) ==
    IF rep.contentType # "" THEN rep.contentType ELSE "application/octet-stream"

VideoFinish(rep) ==
    IF rep.kind = "throw" THEN TextResponse(502, "Proxy error")
    ELSE [rep EXCEPT !.contentType = VideoContentType(rep)]

\* ---- upstream, and the two handlers at work

\* What upstream answers the poller's call: the operation's resource for op123
\* (with or without a content type), 404 for another name, or a 500 of its own.
OperationReplies(call) ==
    {UpstreamFailure, Http(500, "", FALSE, FALSE, <<>>, NoMsg, FALSE, <<>>)}
    \cup (IF call.url = BASE_URL \o <<"/">> \o Op123
          THEN {Http(200, ct, TRUE, FALSE, <<>>, NoMsg, operation.done, operation.uri) :
                  ct \in {"application/json", ""}}
          ELSE {Http(404, "application/json", TRUE, FALSE, <<>>,
                     Msg("not found", 0), FALSE, <<>>)})

\* What the host of the uri answers the video proxy's call.
VideoReplies ==
    {UpstreamFailure,
     [Http(200, "video/mp4", FALSE, FALSE, <<>>, NoMsg, FALSE, <<>>) EXCEPT !.raw = "video bytes"],
     [Http(200, "", FALSE, FALSE, <<>>, NoMsg, FALSE, <<>>) EXCEPT !.raw = "video bytes"],
     [Http(404, "", FALSE, FALSE, <<>>, NoMsg, FALSE, <<>>) EXCEPT !.raw = "Not Found"],
     Http(403, "application/json", TRUE, FALSE, <<>>, Msg("forbidden", 0), FALSE, <<>>)}

RelayHandlers == {"operation", "video"}

RelayEarly(h, req) == IF h = "operation" THEN OperationEarly(req) ELSE VideoEarly(req)

RelayCallOf(h, req) == IF h = "operation" THEN OperationCall(req) ELSE VideoCall(req)

RelayFinish(h, rep) == IF h = "operation" THEN OperationFinish(rep) ELSE VideoFinish(rep)

\* Upstream's answer is the resource of the operation, done.
IsTerminal(rep) == rep.kind = "http" /\ rep.status = 200 /\ rep.valid /\ rep.done

\* A request arrives at the poller or at the video proxy, which runs to its
\* response or to its fetch.
RelayRequest(h, req) ==
    /\ ppc = "idle"
    /\ repeats < MaxRepeats
    /\ phandler' = h
    /\ preq' = req
    /\ upReply' = NoResponse
    /\ IF RelayEarly(h, req) # NoResponse
       THEN /\ presp' = RelayEarly(h, req)
            /\ outbound' = <<>>
            /\ ppc' = "responded"
       ELSE /\ presp' = NoResponse
            /\ outbound' = <<RelayCallOf(h, req)>>
            /\ ppc' = "awaitUpstream"
    /\ UNCHANGED <<envKey, cvars, bvars, rvars>>

\* The answers the fetch in progress may get.
RelayReplies ==
    IF ppc # "awaitUpstream" THEN {}
    ELSE IF phandler = "operation" THEN OperationReplies(outbound[1])
    ELSE VideoReplies

\* The fetch settles, and the handler returns.
RelayUpstreamReply(rep) ==
    /\ ppc = "awaitUpstream"
    /\ phandler \in RelayHandlers
    /\ rep \in RelayReplies
    /\ upReply' = rep
    /\ presp' = RelayFinish(phandler, rep)
    /\ ppc' = "responded"
    /\ IF phandler = "operation" /\ IsTerminal(rep)
       THEN IF terminal = NoResponse
            THEN terminal' = RelayFinish(phandler, rep) /\ UNCHANGED repeats
            ELSE repeats' = repeats + 1 /\ UNCHANGED terminal
       ELSE UNCHANGED <<terminal, repeats>>
    /\ UNCHANGED <<envKey, phandler, preq, outbound, cvars, bvars,
                   GEMINI_API_KEY, API_KEY, operation>>

\* Upstream finishes the operation, with a video or without one.
UpstreamFinishes(uri) ==
    /\ ~operation.done
    /\ operation' = [done |-> TRUE, uri |-> uri]
    /\ UNCHANGED <<cvars, pvars, bvars, GEMINI_API_KEY, API_KEY, terminal, repeats>>

ClientInit ==
    /\ prompt = <<>>
    /\ aspectRatio = "16:9"
    /\ isLoading = FALSE
    /\ videoUrl = <<>>
    /\ error = NoMsg
    /\ errorDetails = NoDetails
    /\ showErrorDetails = FALSE
    /\ runs = <<>>
    /\ nextId = 0
    /\ alerts = 0
    /\ net = {}

\* VITE_API_BASE_URL is not set, in a production build served from AppOrigin.
BuildDefault ==
    /\ viteApiBaseUrl = <<>>
    /\ isDev = FALSE
    /\ locationOrigin = AppOrigin

\* Neither GEMINI_API_KEY nor API_KEY is set; upstream's operation is running and
\* the poller has answered nothing.
RelayUnused ==
    /\ GEMINI_API_KEY = <<>>
    /\ API_KEY = <<>>
    /\ operation = OperationRunning
    /\ terminal = NoResponse
    /\ repeats = 0

Init == ClientInit /\ ProxyIdle /\ envKey = "" /\ BuildDefault /\ RelayUnused

Steps ==
    \/ \E i \in DOMAIN runs : \E res \in StartResponses : StartResponse(i, res)
    \/ \E i \in DOMAIN runs : LoopHead(i)
    \/ \E i \in DOMAIN runs : \E res \in PollResponses : PollResponse(i, res)
    \/ \E i \in DOMAIN runs : SleepElapsed(i)
    \/ \E p \in Prompts : SetPrompt(p)
    \/ \E a \in {"16:9", "9:16"} : SetAspectRatio(a)
    \/ ToggleErrorDetails

\* The page as rendered.
Next == ClickGenerate \/ Steps

Spec == Init /\ [][Next]_vars

\* The operation poller and the video proxy, with the environment set or not when
\* the process starts, and upstream's operation running.
RelayInit ==
    /\ ClientInit /\ ProxyIdle /\ envKey = "" /\ BuildDefault
    /\ GEMINI_API_KEY \in GeminiKeys
    /\ API_KEY \in ApiKeys
    /\ operation = OperationRunning
    /\ terminal = NoResponse
    /\ repeats = 0

RelayNext ==
    \/ \E req \in OperationRequests : RelayRequest("operation", req)
    \/ \E req \in VideoRequests : RelayRequest("video", req)
    \/ \E rep \in RelayReplies : RelayUpstreamReply(rep)
    \/ ProxyReturn
    \/ \E uri \in {<<>>, UpstreamFileUri} : UpstreamFinishes(uri)

RelaySpec == RelayInit /\ [][RelayNext]_vars

\* The browser runs a continuation that is ready (the next iteration of the loop)
\* and fires a timer that is due (sleep); nothing obliges a server to answer.
ClientFairness ==
    /\ WF_vars(\E i \in DOMAIN runs : LoopHead(i))
    /\ WF_vars(\E i \in DOMAIN runs : SleepElapsed(i))

\* The page, with the browser's scheduling.
LiveSpec == Init /\ [][Next]_vars /\ ClientFairness

\* Every fetch of the client settles: it is answered, or it rejects.
NetworkFairness ==
    /\ WF_vars(\E i \in DOMAIN runs : \E res \in StartResponses : StartResponse(i, res))
    /\ WF_vars(\E i \in DOMAIN runs : \E res \in PollResponses : PollResponse(i, res))

\* A user who types a prompt and clicks Generate: the aspect ratio buttons and the
\* details link, which are disabled or absent while a submission is loading, are
\* left alone.
AnsweredNext ==
    \/ ClickGenerate
    \/ \E p \in Prompts : SetPrompt(p)
    \/ \E i \in DOMAIN runs : \E res \in StartResponses : StartResponse(i, res)
    \/ \E i \in DOMAIN runs : LoopHead(i)
    \/ \E i \in DOMAIN runs : \E res \in PollResponses : PollResponse(i, res)
    \/ \E i \in DOMAIN runs : SleepElapsed(i)

\* The page, with the browser's scheduling and servers that answer.
AnsweredSpec == Init /\ [][AnsweredNext]_vars /\ ClientFairness /\ NetworkFairness

\* handleGenerate on its own, without the button in front of it.
HandlerNext == CallHandleGenerate \/ Steps

HandlerSpec == Init /\ [][HandlerNext]_vars

\* The page up to its first status request, in every build configuration: the
\* calls of getSafeApiBaseUrl and the requests sent to the URLs made from it.
BuildInit ==
    /\ ClientInit /\ ProxyIdle /\ envKey = "" /\ RelayUnused
    /\ viteApiBaseUrl \in BaseUrls
    /\ isDev \in BOOLEAN
    /\ locationOrigin \in PageOrigins

BuildNext ==
    \/ ClickGenerate
    \/ \E p \in Prompts : SetPrompt(p)
    \/ \E i \in DOMAIN runs : \E res \in StartResponses : StartResponse(i, res)
    \/ \E i \in DOMAIN runs : LoopHead(i)

BuildSpec == BuildInit /\ [][BuildNext]_vars

\* The generate proxies, each request handled by one of the three variants; the
\* server's secret is set or not when the process starts.
ProxyInit ==
    /\ ClientInit /\ ProxyIdle /\ envKey \in {"", "kE"}
    /\ BuildDefault /\ RelayUnused

ProxyNext ==
    \/ \E h \in Handlers : \E req \in ProxyRequests : ProxyRequest(h, req)
    \/ \E rep \in UpstreamReplies : ProxyUpstreamReply(rep)
    \/ ProxyReturn

ProxySpec == ProxyInit /\ [][ProxyNext]_vars

---------------------------------------------------------------------------
\* Properties.

\* The status requests of call r that have no answer yet.
PollsInFlight(r) == {q \in net : q.id = r.id /\ q.kind = "poll"}

\* The start call failed: a transport failure, a non-2xx status, a body that is no
\* JSON, success not true, or no operation name.
StartFailed(res) ==
    \/ res.kind = "typeerror"
    \/ /\ res.kind = "http"
       /\ \/ res.status < 200
          \/ res.status > 299
          \/ ~res.valid
          \/ ~res.success
          \/ res.operationName = <<>>

\* A 2xx status response that says done=true and carries a video URI.
TerminalWithUri(res) ==
    /\ res.kind = "http" /\ res.status >= 200 /\ res.status <= 299
    /\ res.valid /\ res.done /\ res.uri # <<>>

\* "https://upstream/v1", percent-encoded.
EncodedUpstreamV1 ==
    <<"h","t","t","p","s","%","3","A","%","2","F","%","2","F",
      "u","p","s","t","r","e","a","m","%","2","F","v","1">>

UpstreamV1 ==
    <<"h","t","t","p","s",":","/","/","u","p","s","t","r","e","a","m","/","v","1">>

\* C1: a submission never issues more than maxAttempts (60) status requests; and
\* once the loop has used up its 60 attempts (every status response was in
\* progress), the submission is Failed with the timeout message: not loading, no
\* video URL.
C1_PollCap ==
    \A i \in DOMAIN runs :
        LET r == runs[i]
        IN  /\ r.polls <= 60
            /\ Cardinality(PollsInFlight(r)) <= 60
            /\ (r.pc = "done" /\ r.attempt = 60) =>
                  /\ r.polls = 60
                  /\ ~isLoading
                  /\ error = TimeoutMessage
                  /\ videoUrl = <<>>
            /\ (r.pc = "done" /\ ~TerminalWithUri(r.opRes)) =>
                  /\ videoUrl = <<>>
                  /\ error # NoMsg

\* C1 witness: a submission has timed out after its 60th status request.
C1_Witness ==
    \E i \in DOMAIN runs :
        /\ runs[i].pc = "done"
        /\ runs[i].polls = 60
        /\ runs[i].attempt = 60
        /\ error = TimeoutMessage

\* C2: after an accepted start and a terminal status response done=true with video
\* URI X, the orchestrator is Ready (not loading, no error) and the URL it plays is
\* <base>/video?uri=<encodeURIComponent(X)>, never X itself; every request of the
\* browser goes to a path under <base> and carries no credential.
C2_ReadyThroughProxy ==
    /\ \A i \in DOMAIN runs :
          LET r == runs[i]
          IN  (r.pc = "done" /\ ~StartFailed(r.startRes) /\ TerminalWithUri(r.opRes)) =>
                 /\ ~isLoading
                 /\ error = NoMsg
                 /\ videoUrl = <<"/api", "/video?uri=">> \o encodeURIComponent(r.opRes.uri)
                 /\ videoUrl # r.opRes.uri
                 /\ (r.opRes.uri = UpstreamV1 =>
                        videoUrl = <<"/api", "/video?uri=">> \o EncodedUpstreamV1)
    /\ \A q \in net :
          /\ Head(q.url) = "/api"
          /\ q.url \notin VideoUris
          /\ q.headers \subseteq {"Content-Type"}
          /\ DOMAIN q.body = {"prompt", "aspect_ratio"}

\* C2 witness: the prompt " a" with ratio 9:16, two status responses in progress,
\* the third done with https://upstream/v1.
C2_Witness ==
    /\ prompt = <<" ", "a">>
    /\ aspectRatio = "9:16"
    /\ \E i \in DOMAIN runs :
          /\ runs[i].pc = "done"
          /\ runs[i].polls = 3
          /\ runs[i].opRes.uri = UpstreamV1
          /\ runs[i].opRes.done
    /\ videoUrl = <<"/api", "/video?uri=">> \o EncodedUpstreamV1
    /\ ~isLoading

\* C3: when the start call fails, the submission is over at once: Failed (not
\* loading, an error message, no video URL), and no status request was or is issued
\* for it.
C3_StartFailureNoPoll ==
    \A i \in DOMAIN runs :
        LET r == runs[i]
        IN  (r.startRes # NoResponse /\ StartFailed(r.startRes)) =>
               /\ r.pc = "done"
               /\ r.polls = 0
               /\ PollsInFlight(r) = {}
               /\ ~isLoading
               /\ error # NoMsg
               /\ videoUrl = <<>>

\* C3 witness: the start call answered 401, and the submission has failed without
\* a status request.
C3_Witness ==
    \E i \in DOMAIN runs :
        /\ runs[i].pc = "done"
        /\ runs[i].startRes.kind = "http"
        /\ runs[i].startRes.status = 401
        /\ runs[i].polls = 0
        /\ error # NoMsg
        /\ ~isLoading

C5_OneInFlight ==
    \A i \in DOMAIN runs :
        LET r == runs[i]
        IN  /\ Cardinality(PollsInFlight(r)) <= 1
            /\ (PollsInFlight(r) # {}) <=> (r.pc = "awaitPoll")

\* C5: step part: a status request is issued only at the head of the loop with no
\* other one outstanding, the head of the loop is reached only from the accepted
\* start response or from the end of the wait, and the wait begins only with a
\* response received.
C5_IssuedAfterWait ==
    \A i \in DOMAIN runs :
        (i \in DOMAIN runs' /\ runs'[i].id = runs[i].id) =>
            /\ (runs'[i].polls # runs[i].polls) =>
                  /\ runs[i].pc = "loopHead"
                  /\ runs'[i].polls = runs[i].polls + 1
                  /\ PollsInFlight(runs[i]) = {}
            /\ (runs'[i].pc = "loopHead" /\ runs[i].pc # "loopHead") =>
                  runs[i].pc \in {"awaitStart", "sleeping"}
            /\ (runs'[i].pc = "sleeping" /\ runs[i].pc # "sleeping") =>
                  /\ runs[i].pc = "awaitPoll"
                  /\ PollsInFlight(runs[i])' = {}

\* C5: the poll loop is strictly sequential: at most one status request of a
\* submission is in flight, and the next is issued only after the previous
\* response was received and the wait has elapsed.
C5_SequentialPolling == [](C5_OneInFlight) /\ [][C5_IssuedAfterWait]_vars

\* C5 witness: the second status request is in flight, alone.
C5_Witness ==
    \E i \in DOMAIN runs :
        /\ runs[i].pc = "awaitPoll"
        /\ runs[i].polls = 2
        /\ Cardinality(PollsInFlight(runs[i])) = 1

\* A 2xx status response that says done=true with no video URI and no error.
TerminalAmbiguous(res) ==
    /\ res.kind = "http" /\ res.status >= 200 /\ res.status <= 299
    /\ res.valid /\ res.done /\ res.uri = <<>> /\ res.error = NoMsg

\* C6: a status response done=true with no video URI and no error ends the
\* submission as Failed with the "completed without video URI" message: not
\* Ready, and no status request follows it.
C6_MalformedTerminal ==
    \A i \in DOMAIN runs :
        LET r == runs[i]
        IN  TerminalAmbiguous(r.opRes) =>
               /\ r.pc = "done"
               /\ PollsInFlight(r) = {}
               /\ r.polls = r.attempt + 1
               /\ ~isLoading
               /\ error = Msg("Operation completed without video URI", 0)
               /\ videoUrl = <<>>

\* C6 witness: the third status response was done=true without URI or error.
C6_Witness ==
    \E i \in DOMAIN runs :
        /\ TerminalAmbiguous(runs[i].opRes)
        /\ runs[i].polls = 3
        /\ runs[i].pc = "done"
        /\ error = NoUriMessage

\* C7: state part: no start request carries a prompt that is empty after trimming.
C7_NoBlankRequest ==
    \A q \in net : q.kind = "start" => Trim(q.body.prompt) # <<>>

\* C7: step part: a handleGenerate call with a prompt that is empty after
\* trimming shows the alert and changes nothing else: no request is sent, and
\* isLoading, videoUrl, error, errorDetails and the calls in progress stay.
C7_BlankRejected ==
    (Trim(prompt) = <<>> /\ (alerts' # alerts \/ nextId' # nextId)) =>
        /\ alerts' = alerts + 1
        /\ UNCHANGED <<prompt, aspectRatio, isLoading, videoUrl, error, errorDetails,
                       showErrorDetails, runs, nextId, net>>

\* C7: a submission whose prompt is empty after trimming is rejected before any
\* network call, and the orchestrator's state is left as it was.
C7_EmptyPromptRejected == [](C7_NoBlankRequest) /\ [][C7_BlankRejected]_vars

\* C7 witness: after a failed submission, a call with a blank prompt was rejected:
\* the error is still shown and nothing is in flight.
C7_Witness ==
    /\ alerts = 1
    /\ nextId = 1
    /\ Trim(prompt) = <<>>
    /\ error # NoMsg
    /\ ~isLoading
    /\ net = {}

\* The credential the claim's order resolves for handler h: the body's apiKey, then
\* the header the handler reads, then the server's secret.
ResolvedCredential(h, req, env) ==
    IF req.apiKey # "" THEN <<"Bearer ", req.apiKey>>
    ELSE IF h = "edge" /\ req.xApiKey # "" THEN <<"Bearer ", req.xApiKey>>
    ELSE IF h # "edge" /\ req.authorization # <<>> THEN req.authorization
    ELSE IF env # "" THEN <<"Bearer ", env>>
    ELSE <<>>

\* C8: in every generate proxy handler the upstream call carries the credential
\* resolved in the order body, header, server secret, and a request for which none
\* resolves makes no upstream call (a well-formed one is answered 401).
C8_CredentialResolution ==
    phandler \in Handlers =>
        LET cred == ResolvedCredential(phandler, preq, envKey)
        IN  /\ outbound # <<>> => (cred # <<>> /\ outbound[1].authorization = cred)
            /\ cred = <<>> => outbound = <<>>
            /\ (/\ cred = <<>>
                /\ ppc = "responded"
                /\ preq.method = "POST"
                /\ preq.contentType = "application/json"
                /\ Trim(preq.prompt) # <<>>) => presp.status = 401

\* C9: when upstream answers a non-2xx status s with a JSON body whose error is the
\* message m, every generate proxy handler answers status s with error m.
C9_ErrorPassThrough ==
    (/\ ppc = "responded"
     /\ upReply.kind = "http"
     /\ (upReply.status < 200 \/ upReply.status > 299)
     /\ upReply.valid
     /\ upReply.error # NoMsg) =>
        /\ presp.kind = "http"
        /\ presp.status = upReply.status
        /\ presp.valid
        /\ presp.error = upReply.error

\* C9 witness: upstream answered 429 {error: "rate limited"} to the edge handler,
\* which returned 429 "rate limited".
C9_Witness ==
    /\ ppc = "responded"
    /\ phandler = "edge"
    /\ upReply.status = 429
    /\ upReply.error = Msg("rate limited", 0)
    /\ presp.status = 429
    /\ presp.error = Msg("rate limited", 0)

\* C10: every generate proxy handler answers a POST whose prompt is missing or
\* blank with 400, and makes no upstream call for it.
C10_PromptValidated ==
    (/\ phandler \in Handlers
     /\ preq.method = "POST"
     /\ preq.contentType = "application/json"
     /\ Trim(preq.prompt) = <<>>) =>
        /\ outbound = <<>>
        /\ ppc = "responded" => presp.status = 400

\* A 2xx start response { success: true, videoUrl } of the synchronous mode.
StartDirect(res) ==
    /\ res.kind = "http" /\ res.status >= 200 /\ res.status <= 299
    /\ res.valid /\ res.success /\ res.videoUrl # <<>>

\* C11: a successful start response that carries a direct videoUrl takes the
\* submission from Submitting straight to Ready with that video: no status request
\* is issued for it, it is over, and it has not failed.
C11_DirectVideoReady ==
    \A i \in DOMAIN runs :
        LET r == runs[i]
        IN  StartDirect(r.startRes) =>
               /\ r.pc = "done"
               /\ r.polls = 0
               /\ PollsInFlight(r) = {}
               /\ ~isLoading
               /\ error = NoMsg
               /\ videoUrl # <<>>

\* The origin a page at origin `page` sends a request for `url` to: the page's own
\* for a path, the page's scheme with the URL's host for a URL that begins with
\* two slashes, the URL's own origin for an absolute URL.
RequestOrigin(url, page) ==
    IF StartsWith(url, <<"/", "/">>)
    THEN Origin(URL(URL(page).protocol \o url))
    ELSE IF URL(url).valid THEN Origin(URL(url))
    ELSE Origin(URL(page))

\* C12: in a production build, whatever VITE_API_BASE_URL is set to, every request
\* of the client goes to the page's own origin, and getSafeApiBaseUrl returns the
\* configured value only when it leads there (a URL naming a localhost host is
\* never returned); otherwise it returns "/api".
C12_SameOriginInProduction ==
    ~isDev =>
        \A q \in net :
            /\ RequestOrigin(q.url, locationOrigin) = locationOrigin
            /\ \/ Head(q.url) = "/api"
               \/ /\ StartsWith(q.url, viteApiBaseUrl)
                  /\ RequestOrigin(viteApiBaseUrl, locationOrigin) = locationOrigin
                  /\ URL(viteApiBaseUrl).valid =>
                        ~IsLocalhost(URL(viteApiBaseUrl).hostname)

\* A status request failed: the fetch was rejected, or the status is not 2xx.
PollFailed(res) ==
    \/ res.kind = "typeerror"
    \/ res.kind = "http" /\ (res.status < 200 \/ res.status > 299)

\* A 2xx status response that does not say done=true.
PollInProgress(res) ==
    /\ res.kind = "http" /\ res.status >= 200 /\ res.status <= 299
    /\ ~(res.valid /\ res.done)

\* C13: state part: a submission whose status request failed is over and Failed,
\* with no status request outstanding and none issued after the failed one.
C13_FailedPollEnds ==
    \A i \in DOMAIN runs :
        LET r == runs[i]
        IN  PollFailed(r.opRes) =>
               /\ r.pc = "done"
               /\ PollsInFlight(r) = {}
               /\ r.polls = r.attempt + 1
               /\ ~isLoading
               /\ error # NoMsg
               /\ videoUrl = <<>>

\* C13: step part: a submission issues a status request only as its first one, or
\* after a 2xx response that reported the operation in progress; a submission that
\* is over issues none.
C13_RepeatOnlyInProgress ==
    \A i \in DOMAIN runs :
        (i \in DOMAIN runs' /\ runs'[i].id = runs[i].id
            /\ runs'[i].polls # runs[i].polls) =>
               /\ runs[i].pc # "done"
               /\ \/ runs[i].polls = 0 /\ runs[i].opRes = NoResponse
                  \/ PollInProgress(runs[i].opRes)

\* C13: no automatic retry: a failed status request (non-2xx or transport error)
\* ends the submission as Failed with no further status request, and the only
\* repeated requests follow a successful response of an operation in progress.
C13_NoRetry == [](C13_FailedPollEnds) /\ [][C13_RepeatOnlyInProgress]_vars

\* C13 witness: the second status request was answered 500 and the submission
\* failed with "Operation polling failed (500)", two status requests made.
C13_Witness ==
    \E i \in DOMAIN runs :
        /\ runs[i].pc = "done"
        /\ runs[i].polls = 2
        /\ runs[i].opRes.kind = "http"
        /\ runs[i].opRes.status = 500
        /\ error = Msg("Operation polling failed", 500)
        /\ net = {}

\* The default message the claim derives from a status.
StatusDefault(status) ==
    CASE status = 401  -> Msg("invalid credential", 0)
      [] status = 403  -> Msg("access denied", 0)
      [] status = 429  -> Msg("rate limited", 0)
      [] status >= 500 -> Msg("upstream unavailable", 0)
      [] OTHER         -> NoMsg

\* C14: when upstream answers the start request with a non-2xx status (401, 403,
\* 429, 500 or above) and no error message, the generate proxy answers
\* { success: false, error } with the default message of that status: invalid
\* credential for 401, rate limited for 429, upstream unavailable from 500 on.
C14_StatusDerivedDefault ==
    (/\ ppc = "responded"
     /\ phandler \in Handlers
     /\ upReply.kind = "http"
     /\ StatusDefault(upReply.status) # NoMsg
     /\ (~upReply.valid \/ upReply.error = NoMsg)) =>
        /\ presp.kind = "http"
        /\ presp.valid
        /\ ~presp.success
        /\ presp.error = StatusDefault(upReply.status)

\* C15: the start call and every status call bound their wait: a request that has
\* no answer does not stay so forever; it is answered, or the client aborts it
\* after its bound and the submission ends (Failed, by timeout).
C15_BoundedWait ==
    /\ (\E q \in net : q.kind = "start") ~> (~isLoading)
    /\ (\E q \in net : q.kind = "poll") ~> (\A q \in net : q.kind # "poll")

\* C16: for a GET request with a uri for which upstream answers, the video proxy
\* answers upstream's status (404 stays 404, 403 stays 403), upstream's body, and
\* upstream's content type, application/octet-stream when upstream reports none.
C16_VideoRelay ==
    (/\ ppc = "responded"
     /\ phandler = "video"
     /\ preq.method = "GET"
     /\ preq.uri # <<>>
     /\ upReply.kind = "http") =>
        /\ presp.kind = "http"
        /\ presp.status = upReply.status
        /\ [presp EXCEPT !.contentType = ""] = [upReply EXCEPT !.contentType = ""]
        /\ presp.contentType = IF upReply.contentType = ""
                               THEN "application/octet-stream"
                               ELSE upReply.contentType

\* C16 witness: upstream answered 404 with no content type, and the video proxy
\* answered 404 with the same body as application/octet-stream.
C16_Witness ==
    /\ ppc = "responded"
    /\ phandler = "video"
    /\ preq.method = "GET"
    /\ upReply.status = 404
    /\ presp.status = 404
    /\ presp.raw = "Not Found"
    /\ presp.contentType = "application/octet-stream"

\* C17: state part: every answer the poller gives for the operation once it is done
\* upstream (upstream answering with the operation's resource) is the answer it
\* gave the first time: status 200 and upstream's terminal body; and between
\* requests the handler holds nothing.
C17_SameTerminalResult ==
    /\ (/\ ppc = "responded"
        /\ phandler = "operation"
        /\ IsTerminal(upReply)) =>
           /\ terminal # NoResponse
           /\ presp = terminal
           /\ presp.status = 200
           /\ presp.done
           /\ presp.uri = operation.uri
    /\ ppc = "idle" =>
           /\ phandler = "none" /\ preq = NoRequest /\ outbound = <<>>
           /\ upReply = NoResponse /\ presp = NoResponse

\* C17: step part: a step of the handler (a request taken, a response made or
\* sent) changes neither the process's environment nor upstream's operation.
C17_NoSideEffect ==
    ppc' # ppc => UNCHANGED <<envKey, GEMINI_API_KEY, API_KEY, operation>>

\* C17: polling an operation that is done is idempotent: repeated poll requests
\* through the operation poller return the same terminal result, and the handler
\* changes and keeps no state.
C17_PollIdempotent == [](C17_SameTerminalResult) /\ [][C17_NoSideEffect]_vars

\* C17 witness: the poller has answered for the done operation a third time, with
\* the terminal result it relayed first: done, with the video's URI.
C17_Witness ==
    /\ ppc = "responded"
    /\ phandler = "operation"
    /\ repeats = 2
    /\ IsTerminal(upReply)
    /\ presp = terminal
    /\ presp.uri = UpstreamFileUri

\* The query parameter the poller (name) or the video proxy (uri) was given.
RelayParam(h, req) == IF h = "operation" THEN req.name ELSE req.uri

\* C18: in every proxy handler a transport failure while contacting upstream is
\* answered 502; and the poller and the video proxy, which have the server's
\* credential alone, answer a well-formed request 500 when that credential is
\* missing, without calling upstream.
C18_TransportAndMisconfiguration ==
    /\ (ppc = "responded" /\ upReply.kind = "throw") => presp.status = 502
    /\ (/\ phandler \in RelayHandlers
        /\ preq.method = "GET"
        /\ RelayParam(phandler, preq) # <<>>
        /\ ServerApiKey = <<>>) =>
           /\ outbound = <<>>
           /\ ppc = "responded"
           /\ presp.status = 500

\* C19: the server's credential goes to upstream only: every call of the poller
\* and of the video proxy that carries the x-goog-api-key header is made to the
\* upstream API's host, whatever uri the client passed.
C19_CredentialToUpstreamOnly ==
    \A k \in DOMAIN outbound :
        outbound[k].xGoogApiKey # <<>> =>
            /\ URL(outbound[k].url).valid
            /\ Origin(URL(outbound[k].url)) = Origin(URL(BASE_URL))

\* C20: state part: when the orchestrator is not loading, error and videoUrl are
\* not both set; a submission that is over has ended in exactly one of Ready
\* (videoUrl set, no error) and Failed (an error message, no videoUrl); and a
\* submission in progress shows neither.
C20_ErrorXorVideo ==
    /\ ~isLoading => ~(error # NoMsg /\ videoUrl # <<>>)
    /\ (~isLoading /\ nextId > 0) =>
          /\ \E i \in DOMAIN runs : runs[i].id = nextId /\ runs[i].pc = "done"
          /\ (error # NoMsg) # (videoUrl # <<>>)
          /\ error # NoMsg => error.text # ""
    /\ isLoading => (error = NoMsg /\ videoUrl = <<>>)

\* C20: step part: an accepted submission clears the error and the videoUrl of the
\* one before it.
C20_ClearedOnSubmit ==
    nextId' # nextId =>
        /\ isLoading'
        /\ error' = NoMsg
        /\ videoUrl' = <<>>
        /\ errorDetails' = NoDetails

\* C20: after any sequence of submissions that do not overlap, error and videoUrl
\* are never both set while not loading: each accepted submission clears both and
\* ends in exactly one of Ready and Failed.
C20_ErrorVideoExclusive == [](C20_ErrorXorVideo) /\ [][C20_ClearedOnSubmit]_vars

\* C20 witness: a second submission, made after the first was over, is Ready: its
\* videoUrl is shown and there is no error.
C20_Witness ==
    /\ nextId = 2
    /\ ~isLoading
    /\ videoUrl # <<>>
    /\ error = NoMsg
    /\ \E i \in DOMAIN runs : runs[i].id = 2 /\ runs[i].pc = "done"

\* C21: state part: a submission makes at most 60 status requests, and one that
\* is over has left the loading state, Ready (a videoUrl, no error) or Failed (an
\* error message, no videoUrl).
C21_EndsReadyOrFailed ==
    \A i \in DOMAIN runs :
        LET r == runs[i]
        IN  /\ r.polls <= 60
            /\ r.attempt <= 60
            /\ (r.pc = "done" /\ r.id = nextId) =>
                  /\ ~isLoading
                  /\ \/ videoUrl # <<>> /\ error = NoMsg
                     \/ videoUrl = <<>> /\ error # NoMsg

\* C21: provided every HTTP call of the orchestrator returns or throws, every
\* accepted submission leaves the loading state, in Ready or Failed, after at most
\* 60 status requests: isLoading does not stay true forever.
C21_Terminates == [](C21_EndsReadyOrFailed) /\ (isLoading ~> ~isLoading)

\* C21 witness: a submission is Ready after 60 status requests, the last of which
\* was answered done with a video.
C21_Witness ==
    \E i \in DOMAIN runs :
        /\ runs[i].pc = "done"
        /\ runs[i].polls = 60
        /\ ~isLoading
        /\ videoUrl # <<>>
        /\ error = NoMsg

\* C22: state part: a submission whose last status response was 2xx without a
\* truthy done flag (an empty body, a body that is no JSON, done=false with or
\* without an error field) goes on: it is loading with no error, or it is over by
\* the attempt cap alone, after 60 status requests, with the timeout message.
C22_InProgressGoesOn ==
    \A i \in DOMAIN runs :
        LET r == runs[i]
        IN  PollInProgress(r.opRes) =>
               IF r.pc = "done"
               THEN /\ r.attempt = 60
                    /\ r.polls = 60
                    /\ error = TimeoutMessage
                    /\ videoUrl = <<>>
               ELSE /\ r.pc \in {"sleeping", "loopHead", "awaitPoll"}
                    /\ isLoading
                    /\ error = NoMsg
                    /\ videoUrl = <<>>

\* C22: step part: such a response is followed by the wait, the wait by the next
\* iteration of the loop, and the next iteration, short of the cap, by a new status
\* request.
C22_WaitsAndPollsAgain ==
    \A i \in DOMAIN runs :
        (i \in DOMAIN runs' /\ runs'[i].id = runs[i].id) =>
            /\ (runs[i].pc = "awaitPoll" /\ runs'[i].pc # "awaitPoll"
                   /\ PollInProgress(runs'[i].opRes)) =>
                  /\ runs'[i].pc = "sleeping"
                  /\ PollsInFlight(runs[i])' = {}
            /\ (runs[i].pc = "sleeping" /\ runs'[i].pc # "sleeping") =>
                  /\ runs'[i].pc = "loopHead"
                  /\ runs'[i].attempt = runs[i].attempt + 1
            /\ (runs[i].pc = "loopHead" /\ runs'[i].pc # "loopHead"
                   /\ runs[i].attempt < 60) =>
                  /\ runs'[i].pc = "awaitPoll"
                  /\ runs'[i].polls = runs[i].polls + 1
                  /\ PollsInFlight(runs[i])' # {}

\* C22: a 2xx status response with an empty body, a body that is no JSON, or no
\* truthy done flag is treated as an operation in progress: the orchestrator waits
\* and polls again, and such responses end the submission only by the attempt cap.
C22_TreatedAsInProgress == [](C22_InProgressGoesOn) /\ [][C22_WaitsAndPollsAgain]_vars

\* C22 witness: the 60th status response was 200 {done: false, error: "quota
\* exceeded"}, and the submission ended by the attempt cap.
C22_Witness ==
    \E i \in DOMAIN runs :
        /\ runs[i].pc = "done"
        /\ runs[i].polls = 60
        /\ runs[i].opRes.status = 200
        /\ runs[i].opRes.valid
        /\ ~runs[i].opRes.done
        /\ runs[i].opRes.error = Msg("quota exceeded", 0)
        /\ error = TimeoutMessage

=============================================================================
